---------------------------- MODULE Spec2Model ----------------------------
(***************************************************************************)
(* A model of the firehose collection pipeline of skyscraper:              *)
(*   - the Collector (SkyScraper.start_collection / _stop_collection),      *)
(*   - the Stream Producer process (client_process / message_handler),      *)
(*   - the Worker processes (worker_process, handle_firehose_message,       *)
(*     _extract_bluesky_post, _process_post_json; and the file-appending    *)
(*     variant process_message / save_post_data),                           *)
(*   - the shared queue, stop event, lock, counter and store.               *)
(* Every process is a small program counter machine; one action is one      *)
(* step between two points where another process can be scheduled.          *)
(***************************************************************************)
EXTENDS Integers, Sequences, FiniteSets, TLC

(***************************************************************************)
(* Bounds of the model.                                                     *)
(***************************************************************************)
NumWorkers == 2      \* size of the worker pool of one run (num_workers)
MaxMsgs == 2         \* messages the upstream source delivers in total
MaxRuns == 2         \* start_collection calls on one SkyScraper object
MaxLimit == 1        \* largest post_limit argument tried
MaxSpawns == 3       \* producers one run spawns at most

Slots == 1..NumWorkers

(***************************************************************************)
(* Data: records of the decoded block payload, commits, raw messages.       *)
(* A python dict is a TLA+ function over its keys; dict.get is Get.          *)
(***************************************************************************)
PostCollection == "app.bsky.feed.post"
PostType == "app.bsky.feed.post"
ImagesType == "app.bsky.embed.images"
ExternalType == "app.bsky.embed.external"
NoneVal == "None"
EmptyDict == [k \in {} |-> NoneVal]

Get(d, k, default) == IF k \in DOMAIN d THEN d[k] ELSE default

\* decoded blocks: a dict record, or something that is not a dict
DictBlock(r) == [isdict |-> TRUE, rec |-> r]
RawBlock == [isdict |-> FALSE, rec |-> EmptyDict]

RecA == [type |-> PostType, text |-> "a", createdAt |-> "t1"]
RecB == [type |-> PostType, text |-> "b",
         embed |-> [type |-> ImagesType],
         reply |-> [parent |-> [uri |-> "at://X"]]]
RecLike == [type |-> "app.bsky.feed.like"]

\* a field value that is not a dict (a string, a number, None): it has no .get
NotADict == [nondict |-> TRUE]
IsDict(v) == "nondict" \notin DOMAIN v

\* post records with the other shapes of embed
RecExtThumb == [type |-> PostType, text |-> "ext-thumb",
                embed |-> [type |-> ExternalType, thumb |-> "blob"]]
RecExtPlain == [type |-> PostType, text |-> "ext-plain",
                embed |-> [type |-> ExternalType]]
RecVideo == [type |-> PostType, text |-> "video",
             embed |-> [type |-> "app.bsky.embed.video", thumb |-> "blob"]]
RecUntagged == [type |-> PostType, text |-> "untagged", embed |-> [thumb |-> "blob"]]
\* a post record whose embed is not a dict
RecBadEmbed == [type |-> PostType, text |-> "bad", embed |-> NotADict]

Op(action, collection, rkey) == [action |-> action, path |-> <<collection, rkey>>]

\* parse: what parse_subscribe_repos_message does with the raw message
\*   "commit" a Commit (has ops), "other" a message without ops, "error" raises
\* car: whether CAR.from_bytes(commit.blocks) decodes ("ok") or raises ("bad")
Commit(repo, ops, car, blocks) ==
    [parse |-> "commit", repo |-> repo, ops |-> ops, car |-> car, blocks |-> blocks]

MsgOne == Commit("did:1", <<Op("create", PostCollection, "k1")>>, "ok",
                 <<DictBlock(RecA)>>)
MsgTwoRecs == Commit("did:1", <<Op("create", PostCollection, "k1")>>, "ok",
                 <<RawBlock, DictBlock(RecA), DictBlock(RecB)>>)
MsgTwoOps == Commit("did:2", <<Op("create", PostCollection, "k1"),
                               Op("create", PostCollection, "k2")>>, "ok",
                 <<DictBlock(RecB)>>)
MsgNoPostOp == Commit("did:1", <<Op("delete", PostCollection, "k1"),
                                 Op("create", "app.bsky.feed.like", "k3")>>, "ok",
                 <<DictBlock(RecA), DictBlock(RecLike)>>)
MsgBadCar == Commit("did:2", <<Op("create", PostCollection, "k1")>>, "bad", <<>>)
MsgOther == [parse |-> "other", repo |-> "did:1", ops |-> <<>>, car |-> "ok",
             blocks |-> <<>>]
MsgGarbage == [parse |-> "error", repo |-> "", ops |-> <<>>, car |-> "bad",
               blocks |-> <<>>]

Messages == {MsgOne, MsgTwoRecs, MsgTwoOps, MsgNoPostOp, MsgBadCar, MsgOther,
             MsgGarbage}

\* further messages: a well-formed post record followed by a malformed one;
\* the other shapes of embed; a collection whose name starts like the post
\* collection's and an update of a post; a repository whose first alias is
\* not an at:// uri
MsgPartial == Commit("did:1", <<Op("create", PostCollection, "k4")>>, "ok",
                 <<DictBlock(RecA), DictBlock(RecBadEmbed), DictBlock(RecB)>>)
MsgExternal == Commit("did:3", <<Op("create", PostCollection, "k5")>>, "ok",
                 <<DictBlock(RecExtThumb), DictBlock(RecExtPlain)>>)
MsgOtherEmbed == Commit("did:3", <<Op("create", PostCollection, "k6")>>, "ok",
                 <<DictBlock(RecVideo), DictBlock(RecUntagged)>>)
MsgPostgate == Commit("did:1", <<Op("create", "app.bsky.feed.postgate", "k7"),
                                 Op("update", PostCollection, "k1")>>, "ok",
                 <<DictBlock(RecB)>>)
MsgWebAlias == Commit("did:4", <<Op("create", PostCollection, "k8")>>, "ok",
                 <<DictBlock(RecA)>>)

AllMessages == Messages \cup {MsgPartial, MsgExternal, MsgOtherEmbed, MsgPostgate,
                               MsgWebAlias}

\* what resolver.did.resolve(repo) does: returns handles, returns none, raises.
\* The directory the runs are checked against: did:1 has a handle, did:3 has
\* two, did:4 has a web address as its first alias, did:2 has none or its
\* lookup fails.
ResolveOutcomes(repo) ==
    CASE repo = "did:1" -> {"handle"}
      [] repo = "did:3" -> {"handles"}
      [] repo = "did:4" -> {"web"}
      [] OTHER -> {"empty", "raise"}
HandleOf(repo) ==
    CASE repo = "did:1" -> "alice"
      [] repo = "did:3" -> "carol"
      [] OTHER -> "bob"
\* also_known_as of the resolved document: a list of uri strings, each
\* modelled as the pair <<scheme, rest>>
AlsoKnownAs(repo, outcome) ==
    CASE outcome = "handle" -> << <<"at://", HandleOf(repo)>> >>
      [] outcome = "handles" -> << <<"at://", HandleOf(repo)>>, <<"at://", "alt">> >>
      [] outcome = "web" -> << <<"https://", "site">>, <<"at://", HandleOf(repo)>> >>
      [] OTHER -> <<>>

(***************************************************************************)
(* Extractor (process/resolver.py, process/post_processors.py,              *)
(* process/firehose_handlers.py): pure functions.                           *)
(***************************************************************************)
convert_did_without_fallback(repo, outcome) ==
    IF outcome = "raise" THEN "unknown"
    ELSE LET aka == AlsoKnownAs(repo, outcome)
         IN  IF aka # <<>> THEN aka[1][2] ELSE "unknown"

\* s.split('at://'): the pieces around the separator
SplitAt(s) == IF s[1] = "at://" THEN <<"", s[2]>> ELSE <<s>>

\* resolver.py:18-23. s.split('at://')[1] is the text after the scheme; with
\* no such piece the IndexError is caught like a failed lookup.
convert_did_to_handle(repo, outcome) ==
    IF outcome = "raise" THEN repo
    ELSE LET aka == AlsoKnownAs(repo, outcome)
         IN  IF aka # <<>>
             THEN (IF Len(SplitAt(aka[1])) >= 2 THEN SplitAt(aka[1])[2] ELSE repo)
             ELSE repo

detect_any_thumb(record) ==
    LET embed == Get(record, "embed", EmptyDict)
    IN  \/ Get(embed, "type", NoneVal) = ImagesType
        \/ "thumb" \in DOMAIN embed

\* post_processors.py:82-86
detect_post_media(record) ==
    LET embed == Get(record, "embed", EmptyDict)
    IN  \/ Get(embed, "type", NoneVal) = ImagesType
        \/ (Get(embed, "type", NoneVal) = ExternalType /\ "thumb" \in DOMAIN embed)

\* post_processors.py:99-100
extract_parent_post_uri(record) ==
    LET reply_ref == Get(record, "reply", EmptyDict)
    IN  Get(Get(reply_ref, "parent", EmptyDict), "uri", NoneVal)

\* f'at://{repo}/{path}'
Uri(repo, path) == [scheme |-> "at://", repo |-> repo, path |-> path]

\* post_processors.py:60-69
format_post_metadata(record, repo, path, author_handle) ==
    [text |-> Get(record, "text", ""),
     created_at |-> Get(record, "createdAt", ""),
     author |-> author_handle,
     uri |-> Uri(repo, path),
     has_images |-> detect_post_media(record),
     reply_to |-> extract_parent_post_uri(record)]

format_never_raises(record) == FALSE
\* post_processors.py:82-86, 99-100: .get on a value that is not a dict raises
\* AttributeError
format_raises(record) ==
    LET embed == Get(record, "embed", EmptyDict)
        reply_ref == Get(record, "reply", EmptyDict)
    IN  \/ ~IsDict(embed)
        \/ ~IsDict(reply_ref)
        \/ (IsDict(reply_ref) /\ ~IsDict(Get(reply_ref, "parent", EmptyDict)))

IsPostRecord(b) == b.isdict /\ Get(b.rec, "type", NoneVal) = PostType

\* post_processors.py:39-44: the loop over the post records from the i-th on;
\* an exception of _format_post_metadata leaves the loop
RECURSIVE FormatFrom(_, _, _, _, _)
FormatFrom(posts, repo, path, author_handle, i) ==
    IF i > Len(posts) THEN <<>>
    ELSE IF format_raises(posts[i].rec) THEN <<>>
    ELSE <<format_post_metadata(posts[i].rec, repo, path, author_handle)>>
            \o FormatFrom(posts, repo, path, author_handle, i + 1)

\* post_processors.py:33-44: the post_data records one create operation hands
\* to the sink, in order; none when CAR.from_bytes raises.
extract_bluesky_post(commit, op, outcome) ==
    IF commit.car = "bad" THEN <<>>
    ELSE LET author_handle == convert_did_to_handle(commit.repo, outcome)
             posts == SelectSeq(commit.blocks, IsPostRecord)
         IN  FormatFrom(posts, commit.repo, op.path, author_handle, 1)

IsCreate(op) == op.action = "create"
\* op.action == 'create' and op.path.startswith('app.bsky.feed.post/')
IsPostCreate(op) ==
    op.action = "create" /\ Len(op.path) >= 2 /\ op.path[1] = PostCollection

RECURSIVE OpsRecords(_, _, _)
OpsRecords(commit, outcomes, i) ==
    IF i > Len(commit.ops) THEN <<>>
    ELSE (IF IsPostCreate(commit.ops[i])
          THEN extract_bluesky_post(commit, commit.ops[i], outcomes[i])
          ELSE <<>>) \o OpsRecords(commit, outcomes, i + 1)

\* firehose_handlers.py:22-33: every post_data record one raw message gives
\* rise to, in the order the sink is called; outcomes[i] is what the resolver
\* does when called for operation i.
handle_firehose_message(message, outcomes) ==
    IF message.parse # "commit" THEN <<>>
    ELSE OpsRecords(message, outcomes, 1)

OutcomesFor(message) == [1..Len(message.ops) -> ResolveOutcomes(message.repo)]

(***************************************************************************)
(* State.                                                                   *)
(***************************************************************************)
VARIABLES
    \* shared resources created in SkyScraper.__init__ (scraper.py:41-56)
    stop_event,     \* multiprocessing.Event
    queue,          \* multiprocessing.Queue: raw messages in FIFO order
    post_count,     \* multiprocessing.Value('i', 0)
    lock,           \* multiprocessing.Lock: 0 free, else the slot holding it
    posts_dict,     \* manager.dict(): uri -> post_data
    posts_list,     \* manager.list(): post_data in arrival order
    file,           \* the output file of the file-appending sink: chunks on disk
    sink,           \* which pipeline the workers run: "memory" or "file"
    workers,        \* self.workers: process handles [gen, slot] ever appended
    \* Collector control state
    pcC,            \* position of the main process
    caller,         \* who called the running _stop_collection
    idx,            \* position of `for p in self.workers`
    runs,           \* start_collection calls so far
    duration_set,   \* duration_seconds is truthy
    post_limit,     \* post_limit argument (0: None)
    time_up,        \* time.time() > end_time
    \* Stream Producer process (self.client_proc)
    ppc, pmsg, delivered,
    orphans,        \* producers of earlier rounds of the retry loop that still run:
                    \* self.client_proc no longer refers to them
    \* Worker processes of the current run, by slot
    wpc, wtodo, fbuf,
    wmsg,           \* the worker's local `message`, until the loop head is reached
    result,         \* what the latest start_collection call returned
    \* history of the run, read only by the properties
    spawns,         \* producers spawned in this run
    stop_reason,    \* which branch of the monitor loop called _stop_collection
    calls_done,     \* completed _stop_collection calls in this run
    killed_at,      \* slot -> where terminate() hit the worker
    taken_after     \* slot -> messages the run's worker has taken with
                    \* stop_event set

vars == <<stop_event, queue, post_count, lock, posts_dict, posts_list, file, sink,
          workers, pcC, caller, idx, runs, duration_set, post_limit, time_up,
          ppc, pmsg, delivered, orphans, wpc, wtodo, fbuf, wmsg, taken_after, result,
          spawns, stop_reason, calls_done, killed_at>>

shared == <<stop_event, queue, post_count, lock, posts_dict, posts_list, file>>
collector == <<pcC, caller, idx, runs, duration_set, post_limit, time_up, workers,
              result>>
producer == <<ppc, pmsg, delivered, orphans>>
workerState == <<wpc, wtodo, fbuf, wmsg, taken_after>>
history == <<spawns, stop_reason, calls_done, killed_at>>

EmptyStore == [u \in {} |-> NoneVal]
\* no message in hand
NoMessage == [parse |-> "none"]
\* start_collection has not returned
NoResult == [returned |-> FALSE, dict |-> EmptyStore, list |-> <<>>]

\* Observation of late dequeues. taken_after is not program state: it counts,
\* for each worker of the run, the messages taken with the stop signal
\* already set. The count is kept only in behaviours that start from
\* LateInit; in all others it stays Unobserved.
LateNone == [w \in Slots |-> 0]
Unobserved == [w \in Slots |-> -1]
Observing == taken_after # Unobserved
CountLate(w) == IF Observing THEN [taken_after EXCEPT ![w] = @ + 1] ELSE taken_after

\* scraper.py:33-56, SkyScraper.__init__; s is the pipeline the object runs,
\* late the initial value of the observation
Fresh(s, late) ==
    /\ stop_event = FALSE
    /\ queue = <<>>
    /\ post_count = 0
    /\ lock = 0
    /\ posts_dict = EmptyStore
    /\ posts_list = <<>>
    /\ file = <<>>
    /\ sink = s
    /\ workers = <<>>
    /\ pcC = "idle" /\ caller = "none" /\ idx = 0 /\ runs = 0
    /\ duration_set = FALSE /\ post_limit = 0 /\ time_up = FALSE
    /\ ppc = "none" /\ pmsg = NoMessage /\ delivered = 0
    /\ orphans = <<>>
    /\ wpc = [w \in Slots |-> "none"]
    /\ wtodo = [w \in Slots |-> <<>>]
    /\ fbuf = [w \in Slots |-> <<>>]
    /\ wmsg = [w \in Slots |-> NoMessage]
    /\ taken_after = late
    /\ result = NoResult
    /\ spawns = 0 /\ stop_reason = "none" /\ calls_done = 0
    /\ killed_at = [w \in Slots |-> "none"]

\* the object as the specifications other than LateSpec start it
Construct(s) == Fresh(s, Unobserved)

\* the in-memory collector of scraper.py
Init == Construct("memory")
\* the file-appending pipeline of client.py and processor.py
FileInit == Construct("file")
\* the same object, with late dequeues counted
LateInit == Fresh("memory", LateNone)

WorkerAlive(w) == wpc[w] \notin {"none", "exited", "killed"}
ProducerAlive == ppc \in {"wait", "put"}
is_alive_never(p) == FALSE
\* Process.is_alive() of a handle of self.workers: processes of an earlier run
\* were all joined by that run's _stop_collection
is_alive(p) == p.gen = runs /\ WorkerAlive(p.slot)

(***************************************************************************)
(* Collector: SkyScraper.start_collection (scraper.py:58-150).              *)
(***************************************************************************)
NewWorkers(gen) == [w \in Slots |-> [gen |-> gen, slot |-> w]]

\* scraper.py:69-96: start_time/end_time, spawn the pool, install the SIGINT
\* handler. Nothing created by __init__ is created again here.
Begin(dur, lim) ==
    /\ runs < MaxRuns
    /\ runs' = runs + 1
    /\ duration_set' = dur /\ post_limit' = lim /\ time_up' = FALSE
    /\ workers' = workers \o NewWorkers(runs + 1)
    /\ wpc' = [w \in Slots |-> "loop"]
    /\ wtodo' = [w \in Slots |-> <<>>]
    /\ fbuf' = [w \in Slots |-> <<>>]
    /\ wmsg' = [w \in Slots |-> NoMessage]
    /\ taken_after' = IF Observing THEN LateNone ELSE taken_after
    /\ result' = NoResult
    /\ pcC' = "spawn" /\ caller' = "none" /\ idx' = 0
    /\ spawns' = 0 /\ stop_reason' = "none"
    /\ calls_done' = 0
    /\ killed_at' = [w \in Slots |-> "none"]
    /\ UNCHANGED <<shared, sink, producer>>

\* the first start_collection call on a new SkyScraper object
start_collection ==
    /\ pcC = "idle"
    /\ \E dur \in BOOLEAN, lim \in 0..MaxLimit : Begin(dur, lim)

\* a further start_collection call on the same object, after an earlier one
\* returned
start_collection_again ==
    /\ pcC = "returned"
    /\ \E dur \in BOOLEAN, lim \in 0..MaxLimit : Begin(dur, lim)

\* scraper.py:101 and client/client.py:46-62
start_client_process ==
    /\ pcC = "spawn"
    /\ ppc' = "wait" /\ pmsg' = NoMessage
    /\ orphans' = IF ProducerAlive THEN Append(orphans, [pc |-> ppc, msg |-> pmsg])
                  ELSE orphans
    /\ spawns' = spawns + 1
    /\ pcC' = "poll"
    /\ UNCHANGED <<shared, sink, workers, result, caller, idx, runs, duration_set, post_limit,
                   time_up, delivered, workerState, stop_reason, calls_done,
                   killed_at>>

\* the wall clock passes end_time
Tick ==
    /\ pcC \in {"spawn", "poll"}
    /\ duration_set /\ ~time_up
    /\ time_up' = TRUE
    /\ UNCHANGED <<shared, sink, workers, result, pcC, caller, idx, runs, duration_set,
                   post_limit, producer, workerState, history>>

CollectorOnly ==
    UNCHANGED <<shared, sink, workers, result, idx, runs, duration_set, post_limit, time_up,
                producer, workerState, spawns, calls_done, killed_at>>

\* entering _stop_collection from the place `c`
EnterStop(c) == pcC' = "sc_set" /\ caller' = c

NoteReason(r) == stop_reason' = r

\* scraper.py:110 `duration_seconds and time.time() > end_time`
TimeLimitOnlyWithoutPostLimit == duration_set /\ post_limit = 0 /\ time_up
TimeLimitReached == duration_set /\ time_up

\* scraper.py:116 `post_limit and self.post_count.value >= post_limit`
PostLimitReached == post_limit # 0 /\ post_count >= post_limit

\* scraper.py:105-132, one round of the monitor loop: (a) stop_event set:
\* break; (b) time limit; (c) post limit; (d) a dead producer with stop_event
\* unset: each calls _stop_collection and breaks; otherwise sleep and go round
Poll ==
    /\ pcC = "poll"
    /\ IF stop_event
       THEN pcC' = "after_inner" /\ UNCHANGED <<caller, stop_reason>>
       ELSE IF TimeLimitReached
       THEN EnterStop("poll") /\ NoteReason("time")
       ELSE IF PostLimitReached
       THEN EnterStop("poll") /\ NoteReason("limit")
       ELSE IF ~ProducerAlive
       THEN EnterStop("poll") /\ NoteReason("disconnect")
       ELSE UNCHANGED <<pcC, caller, stop_reason>>
    /\ CollectorOnly

\* a post_limit that `>=` does not accept next to an int, such as the str "5"
Uncomparable == MaxLimit + 1

\* start_collection(post_limit="5") on a new SkyScraper object
start_collection_uncomparable ==
    /\ pcC = "idle"
    /\ \E dur \in BOOLEAN : Begin(dur, Uncomparable)

\* scraper.py:116 is reached and `self.post_count.value >= post_limit` raises
\* TypeError
LimitCheckRaises == ~stop_event /\ ~TimeLimitReached /\ post_limit = Uncomparable

\* scraper.py:145-147 and 99-101: `except Exception` prints the error and the
\* retry loop goes round to start_client_process; nothing is terminated
MonitorException ==
    /\ pcC = "poll"
    /\ LimitCheckRaises
    /\ spawns < MaxSpawns
    /\ pcC' = "spawn"
    /\ UNCHANGED <<caller, stop_reason>>
    /\ CollectorOnly

\* scraper.py:137-138, 149: after the monitor loop was left by `break`; with
\* stop_event set the retry loop is left and _stop_collection is called, with
\* it unset the retry loop goes round and spawns a new producer
AfterInner ==
    /\ pcC = "after_inner"
    /\ IF stop_event
       THEN EnterStop("final")
       ELSE pcC' = "spawn" /\ UNCHANGED caller
    /\ UNCHANGED stop_reason
    /\ CollectorOnly

\* scraper.py:91-94: SIGINT runs signal_handler in the main process, between
\* any two steps of it; the handler calls _stop_collection and then sys.exit(0)
Interrupt ==
    /\ pcC \notin {"idle", "returned", "exited"}
    /\ caller # "handler"
    /\ EnterStop("handler")
    /\ UNCHANGED <<shared, sink, workers, result, idx, runs, duration_set, post_limit,
                   time_up, producer, workerState, history>>

(***************************************************************************)
(* Collector: SkyScraper._stop_collection (scraper.py:152-176).             *)
(***************************************************************************)
\* scraper.py:156-157
StopSet ==
    /\ pcC = "sc_set"
    /\ stop_event' = TRUE
    /\ pcC' = "sc_client"
    /\ UNCHANGED <<queue, post_count, lock, posts_dict, posts_list, file, sink,
                   workers, result, caller, idx, runs, duration_set, post_limit, time_up,
                   producer, workerState, history>>

\* scraper.py:160-162: terminate() and join() of the producer
TerminateClientSkipped == UNCHANGED ppc
TerminateClient == ppc' = IF ProducerAlive THEN "killed" ELSE ppc

StopClient ==
    /\ pcC = "sc_client"
    /\ TerminateClient
    /\ pcC' = "sc_workers" /\ idx' = 1
    /\ UNCHANGED <<shared, sink, workers, result, caller, runs, duration_set, post_limit,
                   time_up, pmsg, delivered, orphans, workerState, history>>

\* where a process is when SIGTERM ends it: between two messages, or at one
\* of the steps of handling a message
Where(pc) == IF pc \in {"loop", "get"} THEN "idle" ELSE pc

\* scraper.py:166-168: one iteration of `for p in self.workers`; terminate()
\* is SIGTERM, whose default action ends the process wherever it is
TerminateWorkerSkipped(p) == UNCHANGED <<wpc, wtodo, fbuf, wmsg, killed_at, taken_after>>
TerminateWorker(p) ==
    IF is_alive(p)
    THEN /\ wpc' = [wpc EXCEPT ![p.slot] = "killed"]
         /\ wtodo' = [wtodo EXCEPT ![p.slot] = <<>>]
         /\ fbuf' = [fbuf EXCEPT ![p.slot] = <<>>]
         /\ wmsg' = [wmsg EXCEPT ![p.slot] = NoMessage]
         /\ UNCHANGED taken_after
         /\ killed_at' = [killed_at EXCEPT ![p.slot] = Where(wpc[p.slot])]
    ELSE UNCHANGED <<wpc, wtodo, fbuf, wmsg, killed_at, taken_after>>

StopWorker ==
    /\ pcC = "sc_workers"
    /\ idx <= Len(workers)
    /\ TerminateWorker(workers[idx])
    /\ idx' = idx + 1
    /\ UNCHANGED <<shared, sink, workers, result, pcC, caller, runs, duration_set, post_limit,
                   time_up, producer, spawns, stop_reason, calls_done>>

\* scraper.py:150 `return dict(self.posts_dict), list(self.posts_list)`: copies
\* of the two proxies, read one after the other
ReturnValue == [returned |-> TRUE, dict |-> posts_dict, list |-> posts_list]

\* scraper.py:171-176 and the return to the caller: the monitor loop breaks
\* (113, 119, 127), start_collection returns (150), the handler exits (94)
StopDone ==
    /\ pcC = "sc_workers"
    /\ idx > Len(workers)
    /\ calls_done' = calls_done + 1
    /\ pcC' = CASE caller = "poll" -> "after_inner"
                [] caller = "final" -> "returned"
                [] OTHER -> "exited"
    /\ caller' = IF caller = "handler" THEN "handler" ELSE "none"
    /\ idx' = 0
    /\ result' = IF caller = "final" THEN ReturnValue ELSE result
    /\ UNCHANGED <<shared, sink, workers, runs, duration_set, post_limit,
                   time_up, producer, workerState, spawns, stop_reason,
                   killed_at>>

(***************************************************************************)
(* Stream Producer: client_process (client/client.py:16-43, client.py:4-26) *)
(***************************************************************************)
ProducerOnly ==
    UNCHANGED <<stop_event, post_count, lock, posts_dict, posts_list, file, sink,
                collector, workerState, history>>

message_handler_unchecked(m) ==
    /\ ppc = "wait"
    /\ delivered < MaxMsgs
    /\ delivered' = delivered + 1
    /\ ppc' = "put" /\ pmsg' = m
    /\ UNCHANGED <<queue, orphans>>
    /\ ProducerOnly

\* client/client.py:34-36: the upstream source hands a message to the callback;
\* with stop_event set the callback stops the client, client.start returns and
\* the process ends; otherwise the callback goes on to queue.put
message_handler(m) ==
    /\ ppc = "wait"
    /\ delivered < MaxMsgs
    /\ delivered' = delivered + 1
    /\ IF stop_event
       THEN ppc' = "exited" /\ pmsg' = NoMessage
       ELSE ppc' = "put" /\ pmsg' = m
    /\ UNCHANGED <<queue, orphans>>
    /\ ProducerOnly

\* client/client.py:37 queue.put(message)
QueuePut ==
    /\ ppc = "put"
    /\ queue' = Append(queue, pmsg)
    /\ ppc' = "wait" /\ pmsg' = NoMessage
    /\ UNCHANGED <<delivered, orphans>>
    /\ ProducerOnly

\* client/client.py:39-43: the connection drops; client.start raises or
\* returns, the exception is caught and client_process returns
Disconnect ==
    /\ ppc = "wait"
    /\ ppc' = "exited"
    /\ UNCHANGED <<queue, pmsg, delivered, orphans>>
    /\ ProducerOnly

\* sequence s without its i-th element
Without(s, i) == SubSeq(s, 1, i - 1) \o SubSeq(s, i + 1, Len(s))

\* client/client.py:34-36 in a producer the collector no longer refers to
OrphanHandler(i, m) ==
    /\ i \in DOMAIN orphans
    /\ orphans[i].pc = "wait"
    /\ delivered < MaxMsgs
    /\ delivered' = delivered + 1
    /\ orphans' = IF stop_event THEN Without(orphans, i)
                  ELSE [orphans EXCEPT ![i] = [pc |-> "put", msg |-> m]]
    /\ UNCHANGED <<queue, ppc, pmsg>>
    /\ ProducerOnly

\* client/client.py:37 in such a producer
OrphanPut(i) ==
    /\ i \in DOMAIN orphans
    /\ orphans[i].pc = "put"
    /\ queue' = Append(queue, orphans[i].msg)
    /\ orphans' = [orphans EXCEPT ![i] = [pc |-> "wait", msg |-> NoMessage]]
    /\ UNCHANGED <<ppc, pmsg, delivered>>
    /\ ProducerOnly

\* client/client.py:39-43 in such a producer
OrphanDisconnect(i) ==
    /\ i \in DOMAIN orphans
    /\ orphans[i].pc = "wait"
    /\ orphans' = Without(orphans, i)
    /\ UNCHANGED <<queue, ppc, pmsg, delivered>>
    /\ ProducerOnly

OrphanStep ==
    \E i \in 1..MaxSpawns :
        \/ \E m \in Messages : OrphanHandler(i, m)
        \/ OrphanPut(i)
        \/ OrphanDisconnect(i)

(***************************************************************************)
(* Worker: worker_process (process/workers.py:24-33, client.py:28-49) and   *)
(* the sink (process/persistence.py:18-25, processor.py:133-138).           *)
(***************************************************************************)
WorkerOnly == UNCHANGED <<sink, collector, producer, history>>

\* a loop head that does not read the stop signal
WorkerCheckBlind(w) ==
    /\ wpc[w] = "loop"
    /\ wpc' = [wpc EXCEPT ![w] = "get"]
    /\ wmsg' = [wmsg EXCEPT ![w] = NoMessage]
    /\ UNCHANGED <<shared, wtodo, fbuf, taken_after>>
    /\ UNCHANGED <<sink, collector, producer, history>>

\* workers.py:25 `while not stop_event.is_set()`, reached after a message
WorkerCheck(w) ==
    /\ wpc[w] = "loop"
    /\ wpc' = [wpc EXCEPT ![w] = IF stop_event THEN "exited" ELSE "get"]
    /\ wmsg' = [wmsg EXCEPT ![w] = NoMessage]
    /\ UNCHANGED <<shared, wtodo, fbuf, taken_after>>
    /\ WorkerOnly

\* a queue whose get leaves the message in place
WorkerPeek(w) ==
    /\ wpc[w] = "get"
    /\ queue # <<>>
    /\ \E o \in OutcomesFor(Head(queue)) :
          LET todo == handle_firehose_message(Head(queue), o)
          IN  /\ wtodo' = [wtodo EXCEPT ![w] = todo]
              /\ wpc' = [wpc EXCEPT ![w] = IF todo = <<>> THEN "loop" ELSE "store"]
    /\ wmsg' = [wmsg EXCEPT ![w] = Head(queue)]
    /\ taken_after' = IF stop_event THEN CountLate(w) ELSE taken_after
    /\ UNCHANGED <<shared, fbuf>>
    /\ UNCHANGED <<sink, collector, producer, history>>

\* workers.py:28-29: queue.get returns the oldest message; the records it gives
\* rise to are worked off one sink call at a time
WorkerGet(w) ==
    /\ wpc[w] = "get"
    /\ queue # <<>>
    /\ \E o \in OutcomesFor(Head(queue)) :
          LET todo == handle_firehose_message(Head(queue), o)
          IN  /\ wtodo' = [wtodo EXCEPT ![w] = todo]
              /\ wpc' = [wpc EXCEPT ![w] = IF todo = <<>> THEN "loop" ELSE "store"]
    /\ queue' = Tail(queue)
    /\ wmsg' = [wmsg EXCEPT ![w] = Head(queue)]
    /\ taken_after' = IF stop_event THEN CountLate(w) ELSE taken_after
    /\ UNCHANGED <<stop_event, post_count, lock, posts_dict, posts_list, file, fbuf>>
    /\ WorkerOnly

\* workers.py:30-31 and 25: queue.get(timeout=1) raises Empty, `continue`, and
\* the loop condition is read again: the worker returns, or waits again
WorkerTimeout(w) ==
    /\ wpc[w] = "get"
    /\ queue = <<>>
    /\ wpc' = [wpc EXCEPT ![w] = IF stop_event THEN "exited" ELSE "get"]
    /\ UNCHANGED <<shared, wtodo, fbuf, wmsg, taken_after>>
    /\ WorkerOnly

\* `with lock:` (persistence.py:19, processor.py:133) can be entered
LockFreeUnguarded == TRUE
LockFree == lock = 0

UpsertKeepFirst(d, k, v) ==
    [u \in DOMAIN d \cup {k} |-> IF u \in DOMAIN d THEN d[u] ELSE v]
\* persistence.py:21 posts_dict[uri] = post_data
Upsert(d, k, v) == [u \in DOMAIN d \cup {k} |-> IF u = k THEN v ELSE d[u]]

StoreDictCounting(w) ==
    /\ wpc[w] = "store" /\ sink = "memory"
    /\ LockFree
    /\ lock' = w
    /\ posts_dict' = Upsert(posts_dict, Head(wtodo[w]).uri, Head(wtodo[w]))
    /\ post_count' = post_count + 1
    /\ wpc' = [wpc EXCEPT ![w] = "append"]
    /\ UNCHANGED <<stop_event, queue, posts_list, file, wtodo, fbuf, wmsg, taken_after>>
    /\ WorkerOnly

\* persistence.py:19-21: acquire the lock, posts_dict[uri] = post_data
StoreDict(w) ==
    /\ wpc[w] = "store" /\ sink = "memory"
    /\ LockFree
    /\ lock' = w
    /\ posts_dict' = Upsert(posts_dict, Head(wtodo[w]).uri, Head(wtodo[w]))
    /\ wpc' = [wpc EXCEPT ![w] = "append"]
    /\ UNCHANGED <<stop_event, queue, post_count, posts_list, file, wtodo, fbuf, wmsg, taken_after>>
    /\ WorkerOnly

\* persistence.py:22: posts_list.append(post_data), release the lock
StoreList(w) ==
    /\ wpc[w] = "append" /\ sink = "memory"
    /\ posts_list' = Append(posts_list, Head(wtodo[w]))
    /\ lock' = 0
    /\ wpc' = [wpc EXCEPT ![w] = "count"]
    /\ UNCHANGED <<stop_event, queue, post_count, posts_dict, file, wtodo, fbuf, wmsg, taken_after>>
    /\ WorkerOnly

\* json.dump(post_data, f): the text of one record, without a line end
JsonDump(post_data) == [json |-> post_data]
Newline == [nl |-> TRUE]

\* processor.py:133-135: acquire the lock, open the file for append,
\* json.dump into the file object's buffer
FileDump(w) ==
    /\ wpc[w] = "store" /\ sink = "file"
    /\ LockFree
    /\ lock' = w
    /\ fbuf' = [fbuf EXCEPT ![w] = <<JsonDump(Head(wtodo[w]))>>]
    /\ wpc' = [wpc EXCEPT ![w] = "append"]
    /\ UNCHANGED <<stop_event, queue, post_count, posts_dict, posts_list, file, wtodo, wmsg, taken_after>>
    /\ WorkerOnly

\* processor.py:136: f.write('\n'), the file is closed (its buffer reaches the
\* disk), the lock is released
FileClose(w) ==
    /\ wpc[w] = "append" /\ sink = "file"
    /\ file' = file \o fbuf[w] \o <<Newline>>
    /\ fbuf' = [fbuf EXCEPT ![w] = <<>>]
    /\ lock' = 0
    /\ wpc' = [wpc EXCEPT ![w] = "count"]
    /\ UNCHANGED <<stop_event, queue, post_count, posts_dict, posts_list, wtodo, wmsg, taken_after>>
    /\ WorkerOnly

\* persistence.py:24-25, processor.py:137-138: post_count.value += 1 under the
\* counter's own lock; then the next record of the message, or the loop head
Count(w) ==
    /\ wpc[w] = "count"
    /\ post_count' = post_count + 1
    /\ wtodo' = [wtodo EXCEPT ![w] = Tail(@)]
    /\ wpc' = [wpc EXCEPT ![w] = IF Tail(wtodo[w]) = <<>> THEN "loop" ELSE "store"]
    /\ UNCHANGED <<stop_event, queue, lock, posts_dict, posts_list, file, fbuf, wmsg, taken_after>>
    /\ WorkerOnly

(***************************************************************************)
(* Specifications.                                                          *)
(***************************************************************************)
CollectorStep ==
    \/ start_client_process
    \/ Poll
    \/ AfterInner
    \/ StopSet
    \/ StopClient
    \/ StopWorker
    \/ StopDone

\* a step of worker w, up to the sink
WorkerLoop(w) ==
    \/ WorkerCheck(w)
    \/ WorkerGet(w)
    \/ WorkerTimeout(w)
    \/ Count(w)

\* process/workers.py with process/persistence.py
WorkerStep(w) ==
    \/ WorkerLoop(w)
    \/ StoreDict(w)
    \/ StoreList(w)

\* client.py with processor.py
FileWorkerStep(w) ==
    \/ WorkerLoop(w)
    \/ FileDump(w)
    \/ FileClose(w)

Environment ==
    \/ start_collection
    \/ CollectorStep
    \/ Tick
    \/ Interrupt
    \/ \E m \in Messages : message_handler(m)
    \/ QueuePut
    \/ Disconnect

Next ==
    \/ Environment
    \/ \E w \in Slots : WorkerStep(w)

\* one collection run on a new SkyScraper object
Spec == Init /\ [][Next]_vars

\* the same, with the scheduling the operating system gives: the main process
\* and every started worker keep running
LiveSpec ==
    /\ Init /\ [][Next]_vars
    /\ WF_vars(CollectorStep)
    /\ \A w \in Slots : WF_vars(WorkerStep(w))

\* a SkyScraper object whose start_collection is called again after it returned
ReuseNext == Next \/ start_collection_again
ReuseSpec == Init /\ [][ReuseNext]_vars

\* one collection run fed with every kind of message, left to end by a limit
\* or by the end of the connection
DrainNext ==
    \/ start_collection
    \/ CollectorStep
    \/ \E m \in AllMessages : message_handler(m)
    \/ QueuePut
    \/ Disconnect
    \/ \E w \in Slots : WorkerStep(w)
DrainSpec == Init /\ [][DrainNext]_vars

\* Spec with late dequeues counted
LateSpec == LateInit /\ [][Next]_vars

\* a step of the main process when the round of the monitor loop may raise
CollectorStepOrRaise ==
    \/ ~(pcC = "poll" /\ LimitCheckRaises) /\ CollectorStep
    \/ MonitorException

\* one collection run called with a post_limit that cannot be compared with
\* the counter
ExceptNext ==
    \/ start_collection_uncomparable
    \/ CollectorStepOrRaise
    \/ Tick
    \/ Interrupt
    \/ \E m \in Messages : message_handler(m)
    \/ QueuePut
    \/ Disconnect
    \/ OrphanStep
    \/ \E w \in Slots : WorkerStep(w)
ExceptSpec == Init /\ [][ExceptNext]_vars

\* one collection run of either pipeline
SinkNext ==
    \/ Environment
    \/ \E w \in Slots : WorkerStep(w)
    \/ \E w \in Slots : FileWorkerStep(w)
SinkSpec == (Init \/ FileInit) /\ [][SinkNext]_vars

(***************************************************************************)
(* Properties.                                                              *)
(***************************************************************************)
Running == pcC \in {"spawn", "poll"}
Stopping == pcC \in {"sc_set", "sc_client", "sc_workers", "after_inner"}
Stopped == pcC \in {"returned", "exited"}
AllExited == ~ProducerAlive /\ \A w \in Slots : ~WorkerAlive(w)
Live == {w \in Slots : WorkerAlive(w)}
MidMessage == {"store", "append", "count"}

\* C1: a run in which the monitor loop saw the Stream Producer dead while the
\* Stop Signal was unset (and no limit reached) spawns a new Producer, so it
\* never returns having spawned only the one that died.
C1_ReconnectAfterDisconnect ==
    (pcC = "returned" /\ stop_reason = "disconnect") => spawns >= 2

\* C2: a run that stopped because the post limit L was reached ends with the
\* Progress Counter within [L, L + N - 1], N the number of Workers.
C2_LimitOvershootBound ==
    (pcC = "returned" /\ stop_reason = "limit")
        => (post_count >= post_limit /\ post_count <= post_limit + NumWorkers - 1)

\* C3: teardown never ends a Worker in the middle of a message: a Worker that
\* was terminated was between two messages.
C3_NoPreemptionMidMessage ==
    \A w \in Slots : killed_at[w] \notin MidMessage

\* C4: when the Collector has stopped, the Progress Counter equals the number
\* of entries appended to the ordered sequence.
C4_CounterEqualsAppended ==
    Stopped => post_count = Len(posts_list)

\* C5: once the Stop Signal is set, every Worker and the Stream Producer
\* eventually exits, also with an empty queue and a silent upstream source.
C5_StopLeadsToExit == stop_event ~> AllExited

\* the Stop Signal was set while the Producer waited for a message that never
\* came and a Worker waited on the queue; now all of them are gone
C5_Witness ==
    /\ stop_event /\ AllExited
    /\ ppc = "killed" /\ delivered = 0
    /\ \E w \in Slots : wpc[w] = "exited"

\* C6: a configured limit that is reached makes the Collector set the Stop
\* Signal whatever the other limit is; with neither limit configured and a
\* live Producer only an interrupt takes the Collector out of Running.
C6_OrSemantics ==
    /\ (Running /\ duration_set /\ time_up) ~> stop_event
    /\ (Running /\ post_limit # 0 /\ post_count >= post_limit) ~> stop_event
    /\ [][(Running /\ ~duration_set /\ post_limit = 0
             /\ (pcC = "poll" => ProducerAlive))
            => (Running' \/ caller' = "handler")]_vars

\* both limits configured, only the post limit reached, and the monitor loop
\* has called _stop_collection
C6_Witness ==
    /\ pcC = "sc_client" /\ caller = "poll" /\ stop_event
    /\ duration_set /\ ~time_up /\ stop_reason = "limit"

\* C7: once a _stop_collection call has completed, a further call (the one at
\* the end of start_collection, or the interrupt handler's) changes neither
\* the Stop Signal, the store, the counter nor the set of live processes; and
\* a handler call that cuts into a running call ends with the Stop Signal set
\* and every process gone.
C7_TeardownIdempotent ==
    [][/\ calls_done >= 1 =>
            /\ stop_event /\ stop_event'
            /\ UNCHANGED <<posts_dict, posts_list, file, post_count>>
            /\ Live' = Live /\ ProducerAlive' = ProducerAlive
            /\ AllExited
       /\ pcC' = "exited" => (stop_event' /\ AllExited')]_vars

\* the handler's call cut into the monitor loop's call and has completed
C7_Witness ==
    pcC = "exited" /\ stop_reason # "none" /\ calls_done = 1

\* C8: at the start of every start_collection call, also a second one on the
\* same object, the store is empty, the counter 0, the Stop Signal unset and
\* the pool holds exactly the Workers just spawned.
C8_FreshStart ==
    [][(pcC \in {"idle", "returned"} /\ pcC' = "spawn") =>
          /\ posts_dict' = EmptyStore /\ posts_list' = <<>> /\ post_count' = 0
          /\ ~stop_event'
          /\ Len(workers') = NumWorkers]_vars

\* worker w is between acquiring and releasing the sink's lock
InCritical(w) == wpc[w] = "append"
\* the file is a sequence of lines: the text of one record, then a line end
WholeLines ==
    /\ Len(file) % 2 = 0
    /\ \A i \in 1..Len(file) :
          IF i % 2 = 1 THEN "json" \in DOMAIN file[i] ELSE file[i] = Newline

\* C9: at most one Worker is inside the sink's critical section; between the
\* map write and the append of one record (the dump and the line end of one
\* line) no other write reaches the store; the file holds whole lines only.
C9_SinkSerialized ==
    /\ [](Cardinality({w \in Slots : InCritical(w)}) <= 1 /\ WholeLines)
    /\ [][\A w \in Slots :
            (InCritical(w) /\ InCritical(w)')
                => UNCHANGED <<posts_dict, posts_list, file>>]_vars

\* one Worker is inside the critical section while another, with a record to
\* store, is kept out
C9_Witness ==
    \E w1, w2 \in Slots : w1 # w2 /\ InCritical(w1) /\ wpc[w2] = "store"

\* the last record appended to the sequence for uri u
LastFor(u) ==
    LET I == {i \in 1..Len(posts_list) : posts_list[i].uri = u}
    IN  posts_list[CHOOSE i \in I : \A j \in I : j <= i]
\* store calls that left the critical section: those counted, and those of
\* Workers that have not counted yet or were ended before counting
StoreCalls ==
    post_count + Cardinality({w \in Slots : wpc[w] = "count"})
               + Cardinality({w \in Slots : killed_at[w] = "count"})

\* C10: with no store call cut off half-way, the map holds exactly the uris
\* of the sequence, each with the last record stored for it, and the sequence
\* has one entry per store call.
C10_StoreIdempotence ==
    (\A w \in Slots : ~InCritical(w) /\ killed_at[w] # "append") =>
        /\ DOMAIN posts_dict = {posts_list[i].uri : i \in 1..Len(posts_list)}
        /\ \A u \in DOMAIN posts_dict : posts_dict[u] = LastFor(u)
        /\ Len(posts_list) = StoreCalls

\* the same record was stored twice: one map entry, two sequence entries
C10_Witness ==
    /\ Len(posts_list) = 2 /\ posts_list[1] = posts_list[2]
    /\ Cardinality(DOMAIN posts_dict) = 1
    /\ \A w \in Slots : ~InCritical(w)

\* worker w has just taken the message wmsg'[w] from the queue and handled it
\* up to its first sink call
Took(w) == wmsg[w] = NoMessage /\ wmsg'[w] # NoMessage
StoreUnchanged == UNCHANGED <<posts_dict, posts_list, file, post_count>>
\* the operations of a commit that create a post
PostCreates(m) ==
    SelectSeq(m.ops, LAMBDA op : op.action = "create" /\ op.path[1] = PostCollection)
\* the post-typed records of a commit's block payload, in block order
PostRecords(m) ==
    SelectSeq(m.blocks, LAMBDA b : b.isdict /\ "type" \in DOMAIN b.rec
                                            /\ b.rec.type = PostType)
\* the message cannot be decoded, or its block payload cannot
DecodeFails(m) == m.parse = "error" \/ (m.parse = "commit" /\ m.car = "bad")
\* a record whose embed, reply or reply.parent is not a map
Malformed(r) ==
    \/ ("embed" \in DOMAIN r /\ ~IsDict(r.embed))
    \/ ("reply" \in DOMAIN r /\ ~IsDict(r.reply))
    \/ ("reply" \in DOMAIN r /\ IsDict(r.reply) /\ "parent" \in DOMAIN r.reply
            /\ ~IsDict(r.reply.parent))
\* extraction raises on some post record of the message
ExtractionFails(m) ==
    /\ m.parse = "commit" /\ m.car = "ok" /\ PostCreates(m) # <<>>
    /\ \E i \in 1..Len(PostRecords(m)) : Malformed(PostRecords(m)[i].rec)
\* the post records ahead of the first malformed one
WellFormedPrefix(m) ==
    LET P == PostRecords(m)
        bad == {i \in 1..Len(P) : Malformed(P[i].rec)}
    IN  IF bad = {} THEN P
        ELSE SubSeq(P, 1, (CHOOSE i \in bad : \A j \in bad : i <= j) - 1)
\* a Worker stops running only with the Stop Signal set
WorkerSurvives ==
    \A w \in Slots : (WorkerAlive(w) /\ ~WorkerAlive(w)') => stop_event'

Delivery == delivered' = delivered + 1
\* a message is added to the queue
Push == Len(queue') > Len(queue)
\* the callback holds an accepted message: it is pushed next, at the tail of
\* the queue, and once
PushedOnceInOrder ==
    ppc = "put" => \/ (ppc' = "put" /\ pmsg' = pmsg /\ ~Push)
                   \/ (ppc' = "wait" /\ queue' = Append(queue, pmsg))

\* C12 as stated: every message delivered while the Stop Signal is false is
\* pushed exactly once, in delivery order; one delivered while it is true is
\* not pushed; and no push happens while the Stop Signal is true.
C12_NoPushAfterStop ==
    [][/\ (Delivery /\ ~stop_event) => (ppc' = "put" /\ pmsg' \in Messages)
       /\ (Delivery /\ stop_event) => (ppc' = "exited" /\ ~Push)
       /\ PushedOnceInOrder
       /\ Push => (ppc = "put" /\ ~stop_event)]_vars

\* C12 (amended): a message for which the callback read the Stop Signal as
\* false is pushed exactly once, in delivery order, unless the Producer is
\* terminated before the push; one for which it read true is never pushed;
\* nothing else is pushed. The push itself may follow the setting of the signal.
C12_CallbackPushesWhatItAccepted ==
    [][/\ (Delivery /\ ~stop_event) => (ppc' = "put" /\ pmsg' \in Messages)
       /\ (Delivery /\ stop_event) => (ppc' = "exited" /\ ~Push)
       /\ (PushedOnceInOrder \/ (ppc' = "killed" /\ stop_event /\ ~Push))
       /\ Push => ppc = "put"]_vars

\* two messages were delivered with the Stop Signal unset, and both are in the
\* queue in the order of their delivery
C12_Witness ==
    /\ delivered = 2 /\ ppc = "wait" /\ ~stop_event
    /\ queue = <<MsgOne, MsgTwoOps>>

\* unless the Stop Signal is set, a waiting message is taken from the queue and
\* a Worker that took a message handles it to the end
EnqueuedEventuallyHandled ==
    /\ (queue # <<>>) ~> (queue = <<>> \/ stop_event)
    /\ \A w \in Slots : (wpc[w] \in MidMessage) ~> (wpc[w] = "loop" \/ stop_event)
\* no Worker was ended holding a record that never reached the store whole
NoDequeuedMessageLost ==
    \A w \in Slots : killed_at[w] \notin {"store", "append"}

\* C13: while the Stop Signal is unset every enqueued message is eventually
\* dequeued and processed by some Worker; and the only messages lost are those
\* still in the queue at shutdown, so none that a Worker had dequeued.
C13_EnqueuedEventuallyProcessed ==
    /\ EnqueuedEventuallyHandled
    /\ [](Stopped => NoDequeuedMessageLost)

\* C14: when start_collection has returned, the Stop Signal is set, no Worker
\* and no Stream Producer is alive, and the returned map and sequence are the
\* contents of the Shared Store, which nothing writes any more.
C14_ReturnedMeansStopped ==
    pcC = "returned" =>
        /\ stop_event /\ AllExited
        /\ result.returned
        /\ result.dict = posts_dict /\ result.list = posts_list

\* start_collection has returned a store with a record in it, after teardown
\* terminated a Worker
C14_Witness ==
    /\ pcC = "returned" /\ result.returned /\ Len(result.list) >= 1
    /\ \E w \in Slots : wpc[w] = "killed"

\* C15: handling a commit with post-create operations and a decodable block
\* payload holding post-typed records yields exactly one record per post-create
\* operation, with the uri at://{repo}/{path} of that operation.
C15_OneRecordPerCreate ==
    [][\A w \in Slots :
         (/\ Took(w) /\ wmsg'[w].parse = "commit" /\ wmsg'[w].car = "ok"
          /\ PostCreates(wmsg'[w]) # <<>> /\ PostRecords(wmsg'[w]) # <<>>
          /\ ~ExtractionFails(wmsg'[w]))
            => /\ Len(wtodo'[w]) = Len(PostCreates(wmsg'[w]))
               /\ \A i \in 1..Len(wtodo'[w]) :
                     wtodo'[w][i].uri = [scheme |-> "at://", repo |-> wmsg'[w].repo,
                                         path |-> PostCreates(wmsg'[w])[i].path]]_vars

\* the message is a commit none of whose operations creates a post
NoPostCreate(m) == m.parse = "commit" /\ PostCreates(m) = <<>>

\* C16: handling a commit whose operations are all non-create or outside the
\* post collection produces no record and leaves store and counter unchanged,
\* whatever its block payload holds.
C16_NoRecordWithoutPostCreate ==
    /\ [](\A w \in Slots : NoPostCreate(wmsg[w]) => (wpc[w] = "loop" /\ wtodo[w] = <<>>))
    /\ [][\A w \in Slots : (Took(w) /\ NoPostCreate(wmsg'[w])) => StoreUnchanged]_vars

\* a Worker has handled the commit that deletes a post and creates a like,
\* with a post record among its blocks, and is back at its loop; the store is
\* empty
C16_Witness ==
    /\ \E w \in Slots : wmsg[w] = MsgNoPostOp /\ wpc[w] = "loop"
    /\ posts_dict = EmptyStore /\ posts_list = <<>> /\ post_count = 0

\* the author field the claim gives a record of repository repo, under the
\* directory of ResolveOutcomes: the first handle where the lookup returns
\* handles, the repository identifier where it raises, returns none, or
\* returns a first alias that holds no handle
ExpectedAuthor(repo) ==
    CASE repo = "did:1" -> "alice"
      [] repo = "did:3" -> "carol"
      [] OTHER -> repo
\* every record stored, or on its way to the store
RecordsInFlight ==
    {posts_list[i] : i \in 1..Len(posts_list)}
        \cup {posts_dict[u] : u \in DOMAIN posts_dict}
        \cup UNION {{wtodo[w][i] : i \in 1..Len(wtodo[w])} : w \in Slots}
\* the message is one whose extraction yields records
Extractable(m) ==
    /\ m.parse = "commit" /\ m.car = "ok"
    /\ PostCreates(m) # <<>> /\ PostRecords(m) # <<>> /\ ~ExtractionFails(m)

SampleRecords == {RecA, RecB, RecExtThumb, RecExtPlain, RecVideo, RecUntagged}
\* the rule of the claim, read off the record
HasImagesByRule(r) ==
    /\ "embed" \in DOMAIN r /\ "type" \in DOMAIN r.embed
    /\ \/ r.embed.type = "app.bsky.embed.images"
       \/ (r.embed.type = "app.bsky.embed.external" /\ "thumb" \in DOMAIN r.embed)

\* C18: has_images of a record is true exactly when its embed is tagged as
\* images, or as external with a thumb field; false for any other embed and
\* for no embed.
C18_MediaDetection ==
    \A p \in RecordsInFlight : \A r \in SampleRecords :
        r.text = p.text => (p.has_images <=> HasImagesByRule(r))

\* the store holds the record with an external embed and a thumb (has_images)
\* and the one with an external embed without (no has_images)
C18_Witness ==
    /\ Len(posts_list) = 2
    /\ posts_list[1].text = "ext-thumb" /\ posts_list[1].has_images
    /\ posts_list[2].text = "ext-plain" /\ ~posts_list[2].has_images

\* lines appended to the output file
Lines == Cardinality({i \in 1..Len(file) : "nl" \in DOMAIN file[i]})
\* records written to the sink of the pipeline that runs
Written == IF sink = "memory" THEN Len(posts_list) ELSE Lines

\* C19: the Progress Counter never exceeds the number of records written to
\* the sink (entries of the sequence, lines of the file) and never decreases.
C19_CountedAfterWritten ==
    /\ [](post_count <= Written)
    /\ [][post_count' >= post_count]_vars

\* two lines are in the file and only the first has been counted
C19_Witness ==
    sink = "file" /\ Lines = 2 /\ post_count = 1

\* the uris of the entries of a sequence of records
UrisOf(list) == {list[i].uri : i \in 1..Len(list)}

\* C20: whenever no Worker is inside the sink's critical section, and in the
\* store start_collection returns, the uri keys of the map are the uris of the
\* entries of the sequence.
C20_MapMatchesSequence ==
    /\ (\A w \in Slots : ~InCritical(w)) => DOMAIN posts_dict = UrisOf(posts_list)
    /\ result.returned => DOMAIN result.dict = UrisOf(result.list)

\* messages taken with the Stop Signal set, by the workers 1..n of the run
RECURSIVE LateTotal(_)
LateTotal(n) == IF n = 0 THEN 0 ELSE taken_after[n] + LateTotal(n - 1)

\* C21: after the Stop Signal is set each Worker dequeues at most one further
\* message, so at most NumWorkers messages are dequeued after it in total: a
\* Worker that has handled a message reads the signal before it waits on the
\* queue again.
C21_AtMostOneLateDequeue ==
    /\ [](\A w \in Slots : taken_after[w] <= 1)
    /\ [](LateTotal(NumWorkers) <= NumWorkers)
    /\ [][stop_event => \A w \in Slots : wpc[w] # "get" => wpc'[w] # "get"]_vars

\* every Worker took one message after the signal, handled it and returned
C21_Witness ==
    \A w \in Slots : taken_after[w] = 1 /\ wpc[w] = "exited"

\* Stream Producer processes that run
ProducersAlive == Len(orphans) + (IF ProducerAlive THEN 1 ELSE 0)

\* C22: at most one Stream Producer process is alive at any time of a run, and
\* whenever the retry loop spawns a Producer, also after an exception caught
\* around the monitor loop, every Producer spawned before has exited or been
\* terminated.
C22_AtMostOneProducer ==
    /\ [](ProducersAlive <= 1)
    /\ [][spawns' = spawns + 1 => ~ProducerAlive /\ orphans = <<>>]_vars

\* workers that hold a message
Holding == {w \in Slots : wmsg[w] # NoMessage}

\* C23: each message placed on the queue is handled by at most one Worker. A
\* dequeue removes the head of the queue and hands it to the one Worker that
\* made it; the queue shrinks in no other way; the messages queued or held
\* never outnumber those delivered; and a Worker's records reach the ordered
\* sequence and the Progress Counter one at a time, each once, from the
\* records of the message it dequeued.
C23_HandledByOneWorker ==
    /\ [](Len(queue) + Cardinality(Holding) <= delivered)
    /\ [][\A w \in Slots :
            Took(w) => /\ queue # <<>> /\ queue' = Tail(queue)
                       /\ wmsg'[w] = Head(queue)
                       /\ \A v \in Slots \ {w} :
                             wmsg'[v] = wmsg[v] /\ wtodo'[v] = wtodo[v]]_vars
    /\ [][Len(queue') < Len(queue) => \E w \in Slots : Took(w)]_vars
    /\ [][\A w \in Slots :
            (wtodo'[w] # wtodo[w] /\ wtodo'[w] # <<>>)
                => Took(w) \/ (wpc[w] = "count" /\ wtodo'[w] = Tail(wtodo[w]))]_vars
    /\ [][posts_list' # posts_list =>
            \E w \in Slots : /\ wpc[w] = "append" /\ wpc'[w] = "count"
                              /\ posts_list' = Append(posts_list, Head(wtodo[w]))]_vars
    /\ [][post_count' # post_count =>
            \E w \in Slots : /\ wpc[w] = "count"
                              /\ post_count' = post_count + 1
                              /\ wtodo'[w] = Tail(wtodo[w])]_vars

\* the one message delivered was taken by one Worker while the other waited
\* on the queue, and its one record was stored and counted once
C23_Witness ==
    /\ delivered = 1 /\ queue = <<>>
    /\ \E w \in Slots :
          /\ wmsg[w] = MsgOne /\ wpc[w] = "loop"
          /\ \A v \in Slots \ {w} : wpc[v] = "get" /\ wmsg[v] = NoMessage
    /\ Len(posts_list) = 1 /\ post_count = 1

=============================================================================
